---- MODULE Spec2Model ----
(***************************************************************************)
(* gochain: an in-memory chain of blocks whose blocks are produced and     *)
(* validated by one of two consensus algorithms, proof-of-work and         *)
(* proof-of-stake, behind the Consensus interface.                         *)
(*                                                                         *)
(* Scaling.  SHA-256 and 64-bit words do not fit a model checker, so the   *)
(* widths are scaled and named:                                            *)
(*   DigestBits  width of a digest          (256 in the source)            *)
(*   targetBits  proof-of-work difficulty   (16 of 256 in the source)      *)
(*   WordBytes   width of IntToHex's output (8 in the source)              *)
(*   MaxNonce    bound of the mining loop   (math.MaxInt64 in the source)  *)
(* A byte string is a sequence of naturals; a digest is a byte string of   *)
(* one symbol of DigestBits bits.  Sum256 is a fixed deterministic mixing  *)
(* function standing for sha256.Sum256: the algorithms only rely on it     *)
(* being a function of its input.                                          *)
(***************************************************************************)
EXTENDS Integers, Sequences, FiniteSets, TLC

DigestBits == 8
targetBits == 2
WordBytes == 2
MaxNonce == 5
MaxBlocks == 3
MaxTime == 1
MaxStake == 3
MaxValidators == 3
MaxRand == 11

POW == "POW"
POS == "POS"
ConsensusType == {POW, POS}

(* ---------------- byte strings --------------------------------------- *)

\* []byte("Genesis Block")
GenesisData == <<71, 101, 110, 101, 115, 105, 115, 32, 66, 108, 111, 99, 107>>

\* []byte("Send 50 BTC to John"), []byte("Send 30 BTC to Jane")
Payloads ==
  { <<83, 101, 110, 100, 32, 53, 48, 32, 66, 84, 67, 32, 116, 111, 32, 74, 111, 104, 110>>,
    <<83, 101, 110, 100, 32, 51, 48, 32, 66, 84, 67, 32, 116, 111, 32, 74, 97, 110, 101>> }

WordMod == 256 ^ WordBytes

\* binary.Write(buff, binary.BigEndian, num): two's complement, big-endian
IntToHex(num) ==
  [i \in 1..WordBytes |-> ((num % WordMod) \div (256 ^ (WordBytes - i))) % 256]

RECURSIVE BigEndian(_, _)
BigEndian(acc, bytes) ==
  IF bytes = <<>> THEN acc ELSE BigEndian(acc * 256 + Head(bytes), Tail(bytes))

\* binary.BigEndian.Uint64(b): the first word of b, unsigned
Uint64(b) == BigEndian(0, SubSeq(b, 1, WordBytes))

\* int(u): reinterpretation of an unsigned word as signed
ToInt(u) == IF u >= WordMod \div 2 THEN u - WordMod ELSE u

(* ---------------- the hash ------------------------------------------- *)

DigestMod == 2 ^ DigestBits

\* the modulus of the internal state, a prime
StateMod == 32749

\* one byte absorbed into the internal state
Mix(h, x) == (h * 251 + x + 1) % StateMod

\* the internal state after the bytes of data from index i on (the test on h
\* has it evaluated at each byte)
RECURSIVE Absorb(_, _, _)
Absorb(h, data, i) ==
  IF h >= 0 /\ i > Len(data) THEN h ELSE Absorb(Mix(h, data[i]), data, i + 1)

\* the digest of an internal state
Squeeze(h) == ((h * h) \div 128 + h) % DigestMod

\* sha256.Sum256(data), as a byte string
Sum256(data) == << Squeeze(Absorb(0, data, 1)) >>

\* var hash [32]byte: the zero digest
ZeroHash == << 0 >>

\* big.Int.SetBytes(hash): the digest as an unsigned integer
SetBytes(hash) == BigEndian(0, hash)

(* ---------------- blocks --------------------------------------------- *)

\* Block{Timestamp, Data, PrevBlockHash, Hash: []byte{}, ValidatorID: []byte{}}
Block(ts, data, prevBlockHash) ==
  [Timestamp |-> ts, Data |-> data, PrevBlockHash |-> prevBlockHash,
   Hash |-> <<>>, ValidatorID |-> <<>>]

(* ---------------- proof of work -------------------------------------- *)

\* target := 1 << (256 - targetBits)
target == 2 ^ (DigestBits - targetBits)

powPrepareData(b, nonce) ==
  b.PrevBlockHash \o b.Data \o IntToHex(b.Timestamp)
    \o IntToHex(targetBits) \o IntToHex(nonce)

\* the mining loop with the nonce a qualifying hash was found at left out
RECURSIVE powLoopSkipFirst(_, _, _)
powLoopSkipFirst(b, nonce, hash) ==
  IF nonce < MaxNonce
  THEN LET h == Sum256(powPrepareData(b, nonce + 1))
       IN  IF SetBytes(h) < target
           THEN [nonce |-> nonce + 1, hash |-> h]
           ELSE powLoopSkipFirst(b, nonce + 1, h)
  ELSE [nonce |-> nonce, hash |-> hash]

\* the mining loop: for nonce < math.MaxInt64 { ... break / nonce++ }
RECURSIVE powLoop(_, _, _)
powLoop(b, nonce, hash) ==
  IF nonce < MaxNonce
  THEN LET h == Sum256(powPrepareData(b, nonce))
       IN  IF SetBytes(h) < target
           THEN [nonce |-> nonce, hash |-> h]
           ELSE powLoop(b, nonce + 1, h)
  ELSE [nonce |-> nonce, hash |-> hash]

\* ProofOfWork.Run: always returns a pair (minerID, hash)
PowRun(b) ==
  LET r == powLoop(b, 0, ZeroHash)
  IN  [kind |-> "pair", id |-> IntToHex(r.nonce), hash |-> r.hash]

\* ProofOfWork.Validate.  Uint64 reads the first word of ValidatorID: every
\* identifier a Run returns, a nonce or an address, is at least a word long.
PowValidate(b) ==
  LET nonce == ToInt(Uint64(b.ValidatorID))
  IN  SetBytes(Sum256(powPrepareData(b, nonce))) < target

(* ---------------- proof of stake ------------------------------------- *)

\* threshold := 1 << 255
threshold == 2 ^ (DigestBits - 1)

\* "validator1", "validator2", "validator3"
createMockValidators ==
  << [Address |-> <<118, 97, 108, 105, 100, 97, 116, 111, 114, 49>>,
      Stake |-> 1000, Balance |-> 5000],
     [Address |-> <<118, 97, 108, 105, 100, 97, 116, 111, 114, 50>>,
      Stake |-> 2000, Balance |-> 8000],
     [Address |-> <<118, 97, 108, 105, 100, 97, 116, 111, 114, 51>>,
      Stake |-> 3000, Balance |-> 10000] >>

RECURSIVE SumStake(_)
SumStake(vs) == IF vs = <<>> THEN 0 ELSE Head(vs).Stake + SumStake(Tail(vs))

\* the second loop of selectValidator, from index i with the accumulator acc;
\* 0 stands for falling out of the loop
RECURSIVE selectLoop(_, _, _, _)
selectLoop(vs, selection, i, acc) ==
  IF i > Len(vs) THEN 0
  ELSE IF selection <= acc + vs[i].Stake THEN i
       ELSE selectLoop(vs, selection, i + 1, acc + vs[i].Stake)

\* ProofOfStake.selectValidator with rand.Uint64() = rnd.  The result is the
\* index of the returned *Validator, with how it was reached.  An empty
\* registry or a zero total makes `rnd % totalStake` a division by zero: a
\* run-time panic.
selectValidator(vs, rnd) ==
  LET totalStake == SumStake(vs)
  IN  IF totalStake = 0
      THEN [kind |-> "panic: integer divide by zero", index |-> 0]
      ELSE LET i == selectLoop(vs, rnd % totalStake, 1, 0)
           IN  IF i # 0 THEN [kind |-> "selected", index |-> i]
               ELSE [kind |-> "fallback", index |-> 1]

posPrepareData(b, validator) ==
  b.PrevBlockHash \o b.Data \o IntToHex(b.Timestamp)
    \o validator.Address \o IntToHex(validator.Stake)

\* ProofOfStake.Run with rand.Uint64() = rnd: no check against threshold
PosRun(b, vs, rnd) ==
  LET s == selectValidator(vs, rnd)
  IN  IF s.kind \notin {"selected", "fallback"}
      THEN [kind |-> s.kind, id |-> <<>>, hash |-> <<>>]
      ELSE [kind |-> "pair", id |-> vs[s.index].Address,
            hash |-> Sum256(posPrepareData(b, vs[s.index]))]

\* a Validate that judges the block by its recorded validator only
RECURSIVE posValidateRecorded(_, _, _)
posValidateRecorded(b, vs, i) ==
  IF i > Len(vs) THEN FALSE
  ELSE IF /\ vs[i].Address = b.ValidatorID
          /\ SetBytes(Sum256(posPrepareData(b, vs[i]))) < threshold THEN TRUE
       ELSE posValidateRecorded(b, vs, i + 1)

\* ProofOfStake.Validate: the loop over the registry, from index i
RECURSIVE posValidateLoop(_, _, _)
posValidateLoop(b, vs, i) ==
  IF i > Len(vs) THEN FALSE
  ELSE IF SetBytes(Sum256(posPrepareData(b, vs[i]))) < threshold THEN TRUE
       ELSE posValidateLoop(b, vs, i + 1)

PosValidate(b) == posValidateLoop(b, createMockValidators, 1)

(* ---------------- the Consensus interface ---------------------------- *)

\* NewConsensus(consensusType, block).Run(); rnd is PoS's random draw
ConsensusRun(consensusType, b, rnd) ==
  IF consensusType = POS THEN PosRun(b, createMockValidators, rnd)
  ELSE PowRun(b)

\* a factory that keeps the algorithm the block was produced with
ConsensusValidateByProducer(consensusType, b) ==
  IF \E i \in 1..Len(createMockValidators) :
       createMockValidators[i].Address = b.ValidatorID
  THEN PosValidate(b) ELSE PowValidate(b)

\* NewConsensus(consensusType, block).Validate()
ConsensusValidate(consensusType, b) ==
  IF consensusType = POS THEN PosValidate(b) ELSE PowValidate(b)

\* the cumulative stakes of a registry
Cumulative(vs) == { SumStake(SubSeq(vs, 1, i)) : i \in 1..Len(vs) }

\* the draws of rand.Uint64() tried on a registry: the least and the greatest
\* residue, and the residues at and next to each cumulative stake
Draws(vs) ==
  { s \in {0, SumStake(vs) - 1}
            \cup UNION { {c - 1, c, c + 1} : c \in Cumulative(vs) } :
      s >= 0 /\ s < SumStake(vs) }

\* NewBlock(data, prevBlockHash, consensusType) at time ts
NewBlock(data, prevBlockHash, consensusType, ts, rnd) ==
  LET b == Block(ts, data, prevBlockHash)
      r == ConsensusRun(consensusType, b, rnd)
  IN  [b EXCEPT !.Hash = r.hash, !.ValidatorID = r.id]

(* ---------------- state ---------------------------------------------- *)

VARIABLES
  blocks,         \* Blockchain.blocks
  consensusType,  \* Blockchain.consensusType
  madeBy,         \* per block of the chain, the consensusType NewBlock was given
  clock,          \* time.Now().Unix()
  verdicts,       \* what main's loop printed as "Valid:", per block
  block,          \* a single block handed to a Consensus
  blockBy,        \* the consensusType whose Run produced block
  ret,            \* what that Run returned
  stage,          \* Unvalidated, Produced, Accepted or Rejected
  checkedBy,      \* the consensusType whose Validate judged block
  registry,       \* ProofOfStake.validators of a selection
  draw,           \* rand.Uint64() of a selection
  chosen          \* what selectValidator did

chainVars == <<blocks, consensusType, madeBy, clock, verdicts>>
blockVars == <<block, blockBy, ret, stage, checkedBy>>
selectVars == <<registry, draw, chosen>>
vars == <<blocks, consensusType, madeBy, clock, verdicts,
          block, blockBy, ret, stage, checkedBy, registry, draw, chosen>>

NoRet == [kind |-> "none", id |-> <<>>, hash |-> <<>>]
NoChoice == [kind |-> "none", index |-> 0]

ChainIdle ==
  /\ blocks = <<>>
  /\ consensusType = POW
  /\ madeBy = <<>>
  /\ clock = 0
  /\ verdicts = <<>>

BlockIdle ==
  /\ block = Block(0, <<>>, <<>>)
  /\ blockBy = POW
  /\ ret = NoRet
  /\ stage = "Unvalidated"
  /\ checkedBy = POW

SelectIdle ==
  /\ registry = <<>>
  /\ draw = 0
  /\ chosen = NoChoice

(* ---------------- the chain ------------------------------------------ *)

\* main has not reached its validation loop, the last thing it does
BeforeLoop == verdicts = <<>>

\* the random draws a NewBlock of this type can make
DrawsOf(t) == IF t = POS THEN Draws(createMockValidators) ELSE {0}

NewBlockchain(t) ==
  /\ blocks = <<>>
  /\ \E rnd \in DrawsOf(t) :
       blocks' = << NewBlock(GenesisData, <<>>, t, clock, rnd) >>
  /\ consensusType' = t
  /\ madeBy' = << t >>
  /\ UNCHANGED <<clock, verdicts>>

\* an AddBlock that links the new block to the genesis block
AddBlockToGenesis(data) ==
  /\ BeforeLoop
  /\ blocks # <<>>
  /\ Len(blocks) < MaxBlocks
  /\ LET prevBlock == blocks[1]
     IN  \E rnd \in DrawsOf(consensusType) :
           blocks' = Append(blocks,
                       NewBlock(data, prevBlock.Hash, consensusType, clock, rnd))
  /\ madeBy' = Append(madeBy, consensusType)
  /\ UNCHANGED <<consensusType, clock, verdicts>>

AddBlock(data) ==
  /\ BeforeLoop
  /\ blocks # <<>>
  /\ Len(blocks) < MaxBlocks
  /\ LET prevBlock == blocks[Len(blocks)]
     IN  \E rnd \in DrawsOf(consensusType) :
           blocks' = Append(blocks,
                       NewBlock(data, prevBlock.Hash, consensusType, clock, rnd))
  /\ madeBy' = Append(madeBy, consensusType)
  /\ UNCHANGED <<consensusType, clock, verdicts>>

SwitchConsensus(newType) ==
  /\ BeforeLoop
  /\ blocks # <<>>
  /\ consensusType' = newType
  /\ UNCHANGED <<blocks, madeBy, clock, verdicts>>

\* main's loop over bc.blocks
ValidateChain ==
  /\ BeforeLoop
  /\ blocks # <<>>
  /\ verdicts' = [i \in 1..Len(blocks) |->
                    ConsensusValidate(consensusType, blocks[i])]
  /\ UNCHANGED <<blocks, consensusType, madeBy, clock>>

Tick ==
  /\ BeforeLoop
  /\ clock < MaxTime
  /\ clock' = clock + 1
  /\ UNCHANGED <<blocks, consensusType, madeBy, verdicts>>

Init == ChainIdle /\ BlockIdle /\ SelectIdle

Next ==
  \/ \E t \in ConsensusType : NewBlockchain(t) /\ UNCHANGED blockVars /\ UNCHANGED selectVars
  \/ \E data \in Payloads : AddBlock(data) /\ UNCHANGED blockVars /\ UNCHANGED selectVars
  \/ \E t \in ConsensusType : SwitchConsensus(t) /\ UNCHANGED blockVars /\ UNCHANGED selectVars
  \/ ValidateChain /\ UNCHANGED blockVars /\ UNCHANGED selectVars
  \/ Tick /\ UNCHANGED blockVars /\ UNCHANGED selectVars

Spec == Init /\ [][Next]_vars

(* ---------------- one block through a Consensus ---------------------- *)

PrevHashes == { <<>>, <<131>>, <<208>> }

\* the digests and identifiers a stored field can be overwritten with
AlteredHashes == { <<>>, <<1>>, <<77>>, <<255>> }
AlteredIDs ==
  { IntToHex(n) : n \in 0..MaxNonce }
    \cup { createMockValidators[i].Address : i \in 1..Len(createMockValidators) }

CreateBlock(data, prevBlockHash, ts, t) ==
  /\ stage = "Unvalidated"
  /\ \E rnd \in DrawsOf(t) :
       /\ block' = NewBlock(data, prevBlockHash, t, ts, rnd)
       /\ ret' = ConsensusRun(t, Block(ts, data, prevBlockHash), rnd)
  /\ blockBy' = t
  /\ stage' = "Produced"
  /\ UNCHANGED checkedBy

\* a write to the exported field Block.Hash
AlterHash(h) ==
  /\ stage = "Produced"
  /\ h # block.Hash
  /\ block' = [block EXCEPT !.Hash = h]
  /\ UNCHANGED <<blockBy, ret, stage, checkedBy>>

\* a write to the exported field Block.ValidatorID
AlterValidatorID(id) ==
  /\ stage = "Produced"
  /\ id # block.ValidatorID
  /\ block' = [block EXCEPT !.ValidatorID = id]
  /\ UNCHANGED <<blockBy, ret, stage, checkedBy>>

\* consensus := NewConsensus(t, block); consensus.Validate()
ValidateBlock(t) ==
  /\ stage = "Produced"
  /\ checkedBy' = t
  /\ stage' = IF ConsensusValidate(t, block) THEN "Accepted" ELSE "Rejected"
  /\ UNCHANGED <<block, blockBy, ret>>

NextBlock ==
  \/ \E data \in Payloads \cup {GenesisData}, p \in PrevHashes,
        ts \in 0..MaxTime, t \in ConsensusType :
       CreateBlock(data, p, ts, t) /\ UNCHANGED chainVars /\ UNCHANGED selectVars
  \/ \E h \in AlteredHashes : AlterHash(h) /\ UNCHANGED chainVars /\ UNCHANGED selectVars
  \/ \E id \in AlteredIDs : AlterValidatorID(id) /\ UNCHANGED chainVars /\ UNCHANGED selectVars
  \/ \E t \in ConsensusType : ValidateBlock(t) /\ UNCHANGED chainVars /\ UNCHANGED selectVars

SpecBlock == Init /\ [][NextBlock]_vars

(* ---------------- one selection -------------------------------------- *)

\* a registry of n validators with the stakes of f
RegistryOf(n, f) ==
  [i \in 1..n |-> [Address |-> <<118, i>>, Stake |-> f[i], Balance |-> f[i]]]

Registries ==
  UNION { { RegistryOf(n, f) : f \in [1..n -> 0..MaxStake] } : n \in 0..MaxValidators }

\* pos.validators and the generator's next output are set from outside
LoadRegistry(vs, rnd) ==
  /\ chosen.kind = "none"
  /\ registry' = vs
  /\ draw' = rnd
  /\ chosen' = [kind |-> "ready", index |-> 0]

SelectValidator ==
  /\ chosen.kind = "ready"
  /\ chosen' = selectValidator(registry, draw)
  /\ UNCHANGED <<registry, draw>>

NextSelect ==
  \/ \E vs \in Registries, rnd \in 0..MaxRand :
       LoadRegistry(vs, rnd) /\ UNCHANGED chainVars /\ UNCHANGED blockVars
  \/ SelectValidator /\ UNCHANGED chainVars /\ UNCHANGED blockVars

SpecSelect == Init /\ [][NextSelect]_vars

(* ---------------- properties: one block ------------------------------ *)

Judged == stage \in {"Accepted", "Rejected"}

\* block as NewBlock built it, before Run
Fresh == Block(block.Timestamp, block.Data, block.PrevBlockHash)

\* the nonce hashes block below the proof-of-work target
Qualifies(nonce) ==
  SetBytes(Sum256(Fresh.PrevBlockHash \o Fresh.Data \o IntToHex(Fresh.Timestamp)
                    \o IntToHex(targetBits) \o IntToHex(nonce)))
    < 2 ^ (DigestBits - targetBits)

Solvable == \E n \in 0..(MaxNonce - 1) : Qualifies(n)

\* C1: a block whose ValidatorID and Hash are what ProofOfWork.Run returned
\* passes ProofOfWork.Validate.
C1_RunThenValidate ==
  (/\ Judged
   /\ blockBy = POW
   /\ checkedBy = POW
   /\ block.Hash = ret.hash
   /\ block.ValidatorID = ret.id) => stage = "Accepted"

\* the hash the recorded ValidatorID yields under a consensus type, as a set:
\* empty when the ValidatorID names no validator of the registry
Recomputed(t, b) ==
  IF t = POS
  THEN { Sum256(posPrepareData(b, createMockValidators[i])) :
           i \in { j \in 1..Len(createMockValidators) :
                     createMockValidators[j].Address = b.ValidatorID } }
  ELSE { Sum256(powPrepareData(b, ToInt(Uint64(b.ValidatorID)))) }

\* C2: Validate accepts a block with a non-empty Hash only if that Hash is the
\* hash recomputed from the block's other fields and its ValidatorID.
C2_ValidateChecksHash ==
  (stage = "Accepted" /\ checkedBy = blockBy /\ block.Hash # <<>>)
    => block.Hash \in Recomputed(checkedBy, block)

\* some validator of the registry hashes block below 2^255
SomeValidatorBelow ==
  \E i \in 1..Len(createMockValidators) :
    SetBytes(Sum256(block.PrevBlockHash \o block.Data \o IntToHex(block.Timestamp)
                      \o createMockValidators[i].Address
                      \o IntToHex(createMockValidators[i].Stake)))
      < 2 ^ (DigestBits - 1)

\* C4: ProofOfStake.Validate accepts exactly when some validator of the
\* registry hashes the block's PrevBlockHash, Data and Timestamp below the
\* threshold, whatever ValidatorID and Hash the block records.
C4_PosValidateAnyValidator ==
  (Judged /\ checkedBy = POS) =>
    /\ (stage = "Accepted") = SomeValidatorBelow
    /\ \A h \in AlteredHashes, id \in AlteredIDs :
         PosValidate([block EXCEPT !.Hash = h, !.ValidatorID = id])
           = (stage = "Accepted")

\* a block accepted by ProofOfStake.Validate although the validator it records
\* is not the one Run selected and does not itself hash below the threshold
C4_Witness ==
  /\ stage = "Accepted"
  /\ checkedBy = POS
  /\ blockBy = POS
  /\ block.ValidatorID # ret.id
  /\ \A h \in Recomputed(POS, block) : SetBytes(h) >= threshold
  /\ Recomputed(POS, block) # {}

\* a block no validator hashes below the threshold, rejected
C4_WitnessRejected ==
  stage = "Rejected" /\ checkedBy = POS /\ ~SomeValidatorBelow

LeastNonce == CHOOSE n \in 0..(MaxNonce - 1) :
                Qualifies(n) /\ \A m \in 0..(n - 1) : ~Qualifies(m)

\* C7: when some nonce below the bound qualifies, ProofOfWork.Run returns the
\* least qualifying nonce, as a big-endian word, and that nonce's hash.
C7_RunReturnsLeastNonce ==
  (stage # "Unvalidated" /\ blockBy = POW /\ Solvable) =>
    /\ Len(ret.id) = WordBytes
    /\ BigEndian(0, ret.id) = LeastNonce
    /\ \A k \in 1..WordBytes : ret.id[k] \in 0..255
    /\ ret.hash = Sum256(powPrepareData(Fresh, LeastNonce))
    /\ \A m \in 0..(BigEndian(0, ret.id) - 1) : ~Qualifies(m)

\* a mined block whose nonces 0 and 1 did not qualify
C7_Witness ==
  /\ stage # "Unvalidated"
  /\ blockBy = POW
  /\ Solvable
  /\ BigEndian(0, ret.id) >= 2
  /\ ~Qualifies(0)

\* C8: when no nonce below the bound qualifies, ProofOfWork.Run reports the
\* exhausted search instead of returning a (minerID, hash) pair.
C8_ExhaustionSurfaced ==
  (stage # "Unvalidated" /\ blockBy = POW /\ ~Solvable) => ret.kind # "pair"

(* ---------------- properties: the chain ------------------------------ *)

\* C6: every block of the chain passes Validate of the consensus type that
\* produced it.
C6_ChainBlocksValid ==
  \A i \in 1..Len(blocks) : ConsensusValidate(madeBy[i], blocks[i])

\* the same of the chain's proof-of-stake blocks alone: violated too, by a
\* chain no mining loop was exhausted for
PosBlocksValid ==
  \A i \in 1..Len(blocks) : madeBy[i] = POS => PosValidate(blocks[i])

Linked ==
  blocks # <<>> =>
    /\ blocks[1].PrevBlockHash = <<>>
    /\ \A i \in 2..Len(blocks) : blocks[i].PrevBlockHash = blocks[i - 1].Hash

\* a step that changes the chain appends one block and keeps the others
GrowsByOne ==
  blocks' # blocks =>
    /\ Len(blocks') = Len(blocks) + 1
    /\ SubSeq(blocks', 1, Len(blocks)) = blocks

\* a step that changes the consensus type of a chain changes no block
SwitchKeepsBlocks ==
  (blocks # <<>> /\ consensusType' # consensusType) => blocks' = blocks

\* C9: the genesis block has an empty PrevBlockHash, every later block's
\* PrevBlockHash is the Hash of the block before it, a step that changes the
\* chain appends exactly one block, and no step changes a block of the chain.
C9_ChainLinkage ==
  [][Linked' /\ GrowsByOne /\ SwitchKeepsBlocks]_vars

\* a chain of three blocks made under both consensus types after a switch
C9_Witness ==
  /\ Len(blocks) = 3
  /\ Linked
  /\ madeBy[2] # madeBy[3]
  /\ blocks[3].PrevBlockHash # <<>>
  /\ blocks[2].Hash # blocks[1].Hash

Addresses ==
  { createMockValidators[i].Address : i \in 1..Len(createMockValidators) }

\* C10: the validation loop judges every block with the chain's consensus
\* type at that time, whatever produced the block, and SwitchConsensus changes
\* nothing but the type later AddBlock and validation calls use.
C10_ValidateWithCurrentType ==
  [][/\ verdicts' # verdicts =>
          /\ Len(verdicts') = Len(blocks)
          /\ \A i \in 1..Len(blocks) :
               verdicts'[i] = IF consensusType = POS THEN PosValidate(blocks[i])
                              ELSE PowValidate(blocks[i])
     /\ (blocks # <<>> /\ consensusType' # consensusType) =>
          (blocks' = blocks /\ verdicts' = verdicts)
     /\ (blocks # <<>> /\ blocks' # blocks) =>
          ((consensusType = POS)
             = (blocks'[Len(blocks')].ValidatorID \in Addresses))]_vars

\* a block mined by proof of work, valid under proof of work, and judged
\* invalid by the loop: the loop ran under proof of stake
C10_Witness ==
  /\ consensusType = POS
  /\ Len(verdicts) = Len(blocks)
  /\ \E i \in 1..Len(blocks) :
       /\ madeBy[i] = POW
       /\ PowValidate(blocks[i])
       /\ verdicts[i] = FALSE

(* ---------------- properties: one selection -------------------------- *)

Selected == chosen.kind \notin {"none", "ready"}

\* the cumulative stake of the first i validators
Cum(i) == SumStake(SubSeq(registry, 1, i))

\* C3: with a positive total stake T, validator i is returned for exactly
\* the draws in [Cum(i-1), Cum(i)), stake_i of the T draws, and the fallback
\* is never taken.
C3_StakeWeighted ==
  (Selected /\ SumStake(registry) > 0) =>
    LET T == SumStake(registry)
        s == draw % T
    IN  /\ chosen.kind = "selected"
        /\ Cum(chosen.index - 1) <= s
        /\ s < Cum(chosen.index)
        /\ \A i \in 1..Len(registry) :
             Cardinality({ d \in 0..(T - 1) :
                             selectValidator(registry, d).index = i })
               = registry[i].Stake

\* C5: on an empty registry or a zero total stake, selectValidator fails with
\* "no eligible validators".
C5_NoEligibleValidators ==
  (Selected /\ SumStake(registry) = 0) => chosen.kind = "no eligible validators"

====
